---- MODULE Spec2Model ----
(***************************************************************************)
(* A model of the Validator class of ts-validate: the field-pipeline       *)
(* engine (validate, validateField, validateEvery), its error model       *)
(* (_pushError, _renameChildFields, _setAggregateMessage, _cast,           *)
(* _aggregateErrors), the boolean facade (match...) and the asynchronous   *)
(* variants, whose field tasks and element calls interleave at awaits.     *)
(***************************************************************************)
EXTENDS Integers, Sequences, FiniteSets, TLC

VARIABLES
  validations,  \* the Validation Spec: <<[field, fns], ...>> in declaration order
  input,        \* the caller's value, which the calls mutate in place
  before,       \* the value of input when the last call started
  op,           \* the last call: its name and its field argument
  outcome,      \* how the last call ended: returned value or raised error
  invoked,      \* the checker invocations of the last call, in order
  elems         \* the validateAsync calls of the last call that are in flight

vars == <<validations, input, before, op, outcome, invoked, elems>>

\* Nesting depth of the candidate objects (lists of that many cells).
MaxDepth == 3
\* Length of the arrays handed to the bulk calls.
MaxLen == 2
\* Nesting depth of the candidate objects of the asynchronous calls.
MaxAsyncDepth == 2

(***************************************************************************)
(* JavaScript values.                                                      *)
(***************************************************************************)
Undef == [t |-> "undefined"]
Null == [t |-> "null"]
Num(n) == [t |-> "number", n |-> n]
Str(s) == [t |-> "string", s |-> s]
Obj(h, tl, ex) == [t |-> "object", f |-> [head |-> h, tail |-> tl, extra |-> ex]]
Arr(items) == [t |-> "array", items |-> items]

\* typeof x === 'object' (null and arrays included).
TypeofObject(x) == x.t \in {"object", "array", "null"}

\* Values of the head slot and the (fixed) value of the extra slot.
HeadValues == {Num(4), Num(0), Str("4")}
ExtraValue == Str("abc")

RECURSIVE Objects(_)
Objects(d) ==
  IF d = 0 THEN {}
  ELSE LET tails == {Undef, Null} \cup Objects(d - 1)
       IN  {Obj(h, tl, ExtraValue) : h \in HeadValues, tl \in tails}

\* The elements of the arrays given to the bulk calls.
Elements == {Obj(h, Undef, ExtraValue) : h \in HeadValues}

RECURSIVE SeqsUpTo(_, _)
SeqsUpTo(S, n) ==
  IF n = 0 THEN {<<>>}
  ELSE LET shorter == SeqsUpTo(S, n - 1)
       IN  shorter \cup {Append(s, x) : s \in {q \in shorter : Len(q) = n - 1}, x \in S}

InputsOfDepth(d) ==
  {Null, Undef, Num(4), Str("4")}
    \cup Objects(d)
    \cup {Arr(s) : s \in SeqsUpTo(Elements, MaxLen)}

(***************************************************************************)
(* Errors and their messages.  A message is a sequence of tokens: the      *)
(* header text, the '\n- ' separator, a plain text, or the text            *)
(* 'Validation failed for "<label>": <val><detail>' of a field error.      *)
(***************************************************************************)
HDR == [t |-> "Multiple errors occured:"]
SEP == [t |-> "\n- "]
Text(s) == [t |-> "text", s |-> s]
FailedFor(label, val, detail) ==
  [t |-> "Validation failed for", label |-> label, val |-> val, detail |-> detail]

ThrownNull == [k |-> "null"]
TypeError(msg) == [k |-> "TypeError", message |-> <<Text(msg)>>]
PlainError(msg) == [k |-> "Error", message |-> <<Text(msg)>>]
ValidationError(msg, field, value) ==
  [k |-> "ValidationError", message |-> msg, field |-> field, value |-> value]
AggregateError(errors, msg) ==
  [k |-> "AggregateError", errors |-> errors, message |-> msg]

\* `${value}`: the string rendering of a value.
Render(v) ==
  CASE v.t = "number" -> IF v.n = 4 THEN "4" ELSE "0"
    [] v.t = "string" -> v.s
    [] v.t = "undefined" -> "undefined"
    [] v.t = "null" -> "null"
    [] v.t = "object" -> "[object Object]"
    [] OTHER -> "array"

(***************************************************************************)
(* Checkers.  A checker's result is true, false, a conversion envelope,    *)
(* another value, a Promise (with what it settles to) or a raised error.   *)
(***************************************************************************)
RTrue == [k |-> "true"]
RFalse == [k |-> "false"]
RConv(v) == [k |-> "conversion", converted |-> v]
ROther(v) == [k |-> "other", v |-> v]
RThrow(e) == [k |-> "throw", err |-> e]
RPromise(r) == [k |-> "promise", settles |-> r]
RBool(b) == IF b THEN RTrue ELSE RFalse

isNumber(n) == n.t = "number"
isString(n) == n.t = "string"
isUndefined(n) == n = Undef

NaN == [t |-> "NaN"]

\* Number.parseInt(n) on the values of the model.
ParseInt(n) ==
  CASE n.t = "number" -> Num(n.n)
    [] n.t = "string" /\ n.s = "4" -> Num(4)
    [] OTHER -> NaN

\* convert(toInt): the envelope of toInt(n), which throws on NaN.
toInt(n) ==
  IF ParseInt(n) # NaN
    THEN RConv(ParseInt(n))
    ELSE RThrow(TypeError("Cannot convert to an Int"))

\* (x) => x > 0, with JavaScript's coercion of the operand to a number.
isPositive(x) ==
  CASE x.t = "number" -> x.n > 0
    [] x.t = "string" -> x.s = "4"
    [] OTHER -> FALSE

(***************************************************************************)
(* The error model.                                                        *)
(***************************************************************************)
NoError == [k |-> "none"]

\* A variant that reports the shape of obj as a Field Error.
assertNonNullObjectAsFieldError(obj) ==
  IF obj = Null \/ obj.t = "array" \/ ~TypeofObject(obj)
    THEN ValidationError(<<Text("Not an object")>>, <<>>, obj)
    ELSE NoError

\* _assertNonNullObject: the error it throws, or NoError.
assertNonNullObject(obj) ==
  CASE obj = Null -> TypeError("Unexpected null")
    [] obj.t = "array" -> TypeError("Cannot be an array")
    [] ~TypeofObject(obj) -> TypeError("Not an object")
    [] OTHER -> NoError

\* message.replace(/".+":/, `"${field}":`) on a message of the model.
ReplaceLabel(msg, field) ==
  [i \in DOMAIN msg |->
     IF msg[i].t = "Validation failed for"
       THEN [msg[i] EXCEPT !.label = field]
       ELSE msg[i]]

RECURSIVE renameChildFields(_, _)
renameChildFields(field, err) ==
  CASE err.k = "ValidationError" ->
         LET renamed == <<field>> \o err.field
         IN  [err EXCEPT !.field = renamed,
                         !.message = ReplaceLabel(err.message, renamed)]
    [] err.k = "AggregateError" ->
         [err EXCEPT !.errors =
            [i \in DOMAIN err.errors |-> renameChildFields(field, err.errors[i])]]
    [] OTHER -> err

\* err?.message?.length ? ` (${err.message})` : ''
Details(err) == IF err.k = "null" THEN <<>> ELSE err.message

\* _pushError: the list of errors after the push.
pushError(err, field, value, errors) ==
  CASE err.k = "ValidationError" ->
         Append(errors, [err EXCEPT !.field = <<field>>])
    [] err.k = "AggregateError" ->
         Append(errors, renameChildFields(field, err))
    [] OTHER ->
         Append(errors,
                ValidationError(<<FailedFor(<<field>>, Render(value), Details(err))>>,
                                <<field>>, value))

RECURSIVE Join(_)
\* msgs.join('\n- ')
Join(msgs) ==
  IF msgs = <<>> THEN <<>>
  ELSE IF Len(msgs) = 1 THEN msgs[1]
  ELSE msgs[1] \o <<SEP>> \o Join(Tail(msgs))

\* err with its errors replaced and its message made of theirs.
WithMessages(err, first, errors) ==
  [err EXCEPT !.errors = errors,
              !.message = (IF first THEN <<HDR, SEP>> ELSE <<>>)
                            \o Join([i \in DOMAIN errors |-> errors[i].message])]

RECURSIVE setAggregateMessageWithHeaders(_, _)
\* A variant that heads the message of every aggregate, nested ones too.
setAggregateMessageWithHeaders(err, first) ==
  WithMessages(err, TRUE,
               [i \in DOMAIN err.errors |->
                  IF err.errors[i].k = "AggregateError"
                    THEN setAggregateMessageWithHeaders(err.errors[i], TRUE)
                    ELSE err.errors[i]])

RECURSIVE setAggregateMessage(_, _)
\* _setAggregateMessage: err with its message, and those of the aggregates in it, set.
setAggregateMessage(err, first) ==
  WithMessages(err, first,
               [i \in DOMAIN err.errors |->
                  IF err.errors[i].k = "AggregateError"
                    THEN setAggregateMessage(err.errors[i], FALSE)
                    ELSE err.errors[i]])

Return(v) == [k |-> "return", v |-> v]
Raise(e) == [k |-> "raise", err |-> e]

\* A variant that wraps a single error in an aggregate too.
castWrapsOne(obj, errors) ==
  IF Len(errors) >= 1
    THEN Raise(setAggregateMessage(AggregateError(errors, <<>>), TRUE))
    ELSE Return(obj)

\* _cast: the outcome of the call for obj and the errors collected.
cast(obj, errors) ==
  IF Len(errors) = 1 THEN Raise(errors[1])
  ELSE IF Len(errors) > 1
    THEN Raise(setAggregateMessage(AggregateError(errors, <<>>), TRUE))
  ELSE Return(obj)

(***************************************************************************)
(* The synchronous engine.  A call on a value yields its outcome, the      *)
(* value as the call leaves it (objects are mutated in place) and the      *)
(* checker invocations it made.  path is the place of the value under the  *)
(* caller's input, e the index of the bulk element being validated.        *)
(***************************************************************************)
Fields == [i \in DOMAIN validations |-> validations[i].field]
FnsOf(field) ==
  validations[CHOOSE j \in DOMAIN validations : validations[j].field = field].fns

\* The record of one checker invocation.
Invocation(e, path, i, fn, x) == [e |-> e, path |-> path, i |-> i, fn |-> fn, x |-> x]

\* What a checker that calls nothing else yields.
Plain(res, x) == [res |-> res, x |-> x, log |-> <<>>]

\* What a call yields: its outcome, the value as it leaves it, the invocations.
CallResult(out, obj, log) == [out |-> out, obj |-> obj, log |-> log]

\* What _validateFieldRaw yields: the error thrown (or NoError), the converted
\* value (or undefined), and obj and the invocations as the pipeline leaves them.
RawResult(thrown, converted, obj, log) ==
  [thrown |-> thrown, converted |-> converted, obj |-> obj, log |-> log]

RECURSIVE validate(_, _, _)
RECURSIVE validateFrom(_, _, _, _, _, _)
RECURSIVE validateFieldRawFrom(_, _, _, _, _, _, _, _, _)
RECURSIVE Invoke(_, _, _, _)

\* return true after validate, or its exception.
TrueIfReturned(r) ==
  CallResult(IF r.out.k = "raise" THEN r.out ELSE Return(TRUE), r.obj, r.log)

\* ListValidator.matchOrFail(x), as isList calls it: validate(x), then true.
matchOrFail(x, path, e) == TrueIfReturned(validate(x, path, e))

\* isList(x) as a checker, from what matchOrFail(x) yielded.
isList(r) ==
  [res |-> IF r.out.k = "raise" THEN RThrow(r.out.err) ELSE RTrue,
   x |-> r.obj, log |-> r.log]

\* fn(x): the result, x as the checker leaves it, and the invocations made inside.
Invoke(fn, x, path, e) ==
  CASE fn = "isNumber" -> Plain(RBool(isNumber(x)), x)
    [] fn = "isString" -> Plain(RBool(isString(x)), x)
    [] fn = "isUndefined" -> Plain(RBool(isUndefined(x)), x)
    [] fn = "isPositive" -> Plain(RBool(isPositive(x)), x)
    [] fn = "toInt" -> Plain(toInt(x), x)
    [] fn = "toUndefined" -> Plain(RConv(Undef), x)
    [] fn = "throws" -> Plain(RThrow(PlainError("boom")), x)
    [] fn = "returnsNull" -> Plain(ROther(Null), x)
    [] fn = "returnsOne" -> Plain(ROther(Num(1)), x)
    [] fn = "asyncIsNumber" -> Plain(RPromise(RBool(isNumber(x))), x)
    [] fn = "asyncToInt" -> Plain(RPromise(toInt(x)), x)
    [] fn = "isUndefinedOrList" ->
         \* union(isUndefined, isList): args.some((f) => f(x))
         IF isUndefined(x) THEN Plain(RTrue, x) ELSE isList(matchOrFail(x, path, e))

\* A variant that goes on, after a conversion, with the value as it was.
validateFieldRawOnKeepsValue(field, obj, path, e, i, x, aliased, converted, log, res) ==
  CASE res.k = "throw" -> RawResult(res.err, converted, obj, log)
    [] res.k \in {"promise", "true"} ->
         validateFieldRawFrom(field, obj, path, e, i + 1, x, aliased, converted, log)
    [] res.k = "conversion" ->
         validateFieldRawFrom(field, obj, path, e, i + 1, x, FALSE, res.converted, log)
    [] res = ROther(Null) ->
         RawResult(TypeError("Cannot read properties of null"), converted, obj, log)
    [] OTHER -> RawResult(ThrownNull, converted, obj, log)

\* A variant that takes a Promise for a result that is not true.
validateFieldRawOnRejectsPromise(field, obj, path, e, i, x, aliased, converted, log, res) ==
  CASE res.k = "throw" -> RawResult(res.err, converted, obj, log)
    [] res.k = "true" ->
         validateFieldRawFrom(field, obj, path, e, i + 1, x, aliased, converted, log)
    [] res.k = "conversion" ->
         validateFieldRawFrom(field, obj, path, e, i + 1, res.converted, FALSE,
                              res.converted, log)
    [] res = ROther(Null) ->
         RawResult(TypeError("Cannot read properties of null"), converted, obj, log)
    [] OTHER -> RawResult(ThrownNull, converted, obj, log)

\* The body of the loop of _validateFieldRaw on the i-th checker's result res.
\* aliased: x is still the object in obj[field].
validateFieldRawOn(field, obj, path, e, i, x, aliased, converted, log, res) ==
  CASE res.k = "throw" -> RawResult(res.err, converted, obj, log)
    [] res.k \in {"promise", "true"} ->
         validateFieldRawFrom(field, obj, path, e, i + 1, x, aliased, converted, log)
    [] res.k = "conversion" ->
         validateFieldRawFrom(field, obj, path, e, i + 1, res.converted, FALSE,
                              res.converted, log)
    [] res = ROther(Null) ->
         \* _isConversion(null) reads a property of null
         RawResult(TypeError("Cannot read properties of null"), converted, obj, log)
    [] OTHER -> RawResult(ThrownNull, converted, obj, log)

\* The i-th checker was invoked and yielded r: what it did to x shows in obj
\* while x is the object in obj[field].
validateFieldRawInvoked(field, obj, path, e, i, x, aliased, converted, log, r) ==
  validateFieldRawOn(field, IF aliased THEN [obj EXCEPT !.f[field] = r.x] ELSE obj,
                     path, e, i, r.x, aliased, converted,
                     Append(log, Invocation(e, path \o <<field>>, i, FnsOf(field)[i], x))
                       \o r.log,
                     r.res)

\* The loop of _validateFieldRaw from the i-th checker on.
validateFieldRawFrom(field, obj, path, e, i, x, aliased, converted, log) ==
  IF i > Len(FnsOf(field)) THEN RawResult(NoError, converted, obj, log)
  ELSE validateFieldRawInvoked(field, obj, path, e, i, x, aliased, converted, log,
                               Invoke(FnsOf(field)[i], x, path \o <<field>>, e))

validateFieldRaw(field, obj, path, e) ==
  validateFieldRawFrom(field, obj, path, e, 1, obj.f[field], TRUE, Undef, <<>>)

\* if (converted !== undefined) _obj[field] = converted
writeBack(obj, field, converted) ==
  IF converted # Undef THEN [obj EXCEPT !.f[field] = converted] ELSE obj

\* obj, the errors and the invocations after some of the fields.
Collected(obj, errors, log) == [obj |-> obj, errors |-> errors, log |-> log]

\* The try/catch around one field, r being what _validateFieldRaw yielded.
tryCatch(field, errors, log, r) ==
  IF r.thrown = NoError
    THEN Collected(writeBack(r.obj, field, r.converted), errors, log \o r.log)
    ELSE Collected(r.obj, pushError(r.thrown, field, r.obj.f[field], errors),
                   log \o r.log)

validateFieldStep(field, obj, errors, log, path, e) ==
  tryCatch(field, errors, log, validateFieldRaw(field, obj, path, e))

\* A variant that leaves the loop at the first field that failed.
validateOnFailFast(i, s, path, e) ==
  IF s.errors # <<>> THEN s
  ELSE validateFrom(i, s.obj, s.errors, s.log, path, e)

\* The for loop of validate goes on with the i-th field after s (s = s has s
\* evaluated here, once the field before is done, as the loop does).
validateOn(i, s, path, e) ==
  CASE s = s -> validateFrom(i, s.obj, s.errors, s.log, path, e)

\* A variant that takes the declared fields from the last to the first.
validateFromBackwards(i, obj, errors, log, path, e) ==
  IF i > Len(validations) THEN Collected(obj, errors, log)
  ELSE validateOn(i + 1,
                  validateFieldStep(validations[Len(validations) + 1 - i].field,
                                    obj, errors, log, path, e),
                  path, e)

\* The for loop of validate from the i-th declared field on.
validateFrom(i, obj, errors, log, path, e) ==
  IF i > Len(validations) THEN Collected(obj, errors, log)
  ELSE validateOn(i + 1,
                  validateFieldStep(validations[i].field, obj, errors, log, path, e),
                  path, e)

\* return _cast(obj, errors)
castCollected(s) == CallResult(cast(s.obj, s.errors), s.obj, s.log)

validate(obj, path, e) ==
  IF assertNonNullObject(obj) # NoError
    THEN CallResult(Raise(assertNonNullObject(obj)), obj, <<>>)
    ELSE castCollected(validateFrom(1, obj, <<>>, <<>>, path, e))

\* return _cast<T>(obj, errors)[field]
castField(field, s, c) ==
  CallResult(IF c.k = "return" THEN Return(s.obj.f[field]) ELSE c, s.obj, s.log)

castCollectedField(field, s) == castField(field, s, cast(s.obj, s.errors))

validateField(field, obj) ==
  IF assertNonNullObject(obj) # NoError
    THEN CallResult(Raise(assertNonNullObject(obj)), obj, <<>>)
    ELSE castCollectedField(field, validateFieldStep(field, obj, <<>>, <<>>, <<>>, 0))

\* A variant without the catch.
TrueOrRaised(r) ==
  CallResult(IF r.out.k = "return" THEN Return(TRUE) ELSE r.out, r.obj, r.log)

\* try { return !!this.validate(obj) } catch { return false }
FalseIfRaised(r) == CallResult(Return(r.out.k = "return"), r.obj, r.log)

\* match: false for a non-object, else !!validate(obj), false when it raises.
match(obj, e) ==
  IF ~TypeofObject(obj) \/ obj = Null THEN CallResult(Return(FALSE), obj, <<>>)
  ELSE FalseIfRaised(validate(obj, <<>>, e))

RECURSIVE validateEveryFrom(_, _, _)

\* The error of r, raised after the elements from the i-th on were validated as well.
raisedAfter(r, rest) == CallResult(r.out, rest.obj, rest.log)

\* A variant that validates the remaining elements before it raises.
validateEveryOnAll(i, items, log, r) ==
  IF r.out.k = "raise"
    THEN raisedAfter(r, validateEveryFrom(i + 1, [items EXCEPT ![i] = r.obj],
                                          log \o r.log))
    ELSE validateEveryFrom(i + 1, [items EXCEPT ![i] = r.obj], log \o r.log)

\* The callback of objs.map returned or raised r for the i-th element.
validateEveryOn(i, items, log, r) ==
  IF r.out.k = "raise"
    THEN CallResult(r.out, Arr([items EXCEPT ![i] = r.obj]), log \o r.log)
    ELSE validateEveryFrom(i + 1, [items EXCEPT ![i] = r.obj], log \o r.log)

\* objs.map((obj) => this.validate(obj)) from the i-th element on: the first
\* element that raises ends the loop.
validateEveryFrom(i, items, log) ==
  IF i > Len(items) THEN CallResult(Return(Arr(items)), Arr(items), log)
  ELSE validateEveryOn(i, items, log, validate(items[i], <<>>, i))

validateEvery(objs) ==
  IF objs.t # "array"
    THEN CallResult(Raise(TypeError("Must be an array")), objs, <<>>)
    ELSE validateEveryFrom(1, objs.items, <<>>)

RECURSIVE matchEveryFrom(_, _, _)

\* The callback of objs.every returned r for the i-th element.
matchEveryOn(i, items, log, r) ==
  IF r.out.v = FALSE
    THEN CallResult(Return(FALSE), Arr([items EXCEPT ![i] = r.obj]), log \o r.log)
    ELSE matchEveryFrom(i + 1, [items EXCEPT ![i] = r.obj], log \o r.log)

\* objs.every((obj) => this.match(obj)) from the i-th element on.
matchEveryFrom(i, items, log) ==
  IF i > Len(items) THEN CallResult(Return(TRUE), Arr(items), log)
  ELSE matchEveryOn(i, items, log, match(items[i], i))

matchEvery(objs) ==
  IF objs.t # "array"
    THEN CallResult(Raise(TypeError("objs.every is not a function")), objs, <<>>)
    ELSE matchEveryFrom(1, objs.items, <<>>)

\* objs.forEach(fn) with fn = (obj) => this.validate(obj): an exception of fn
\* leaves forEach.
forEachValidate(objs) ==
  IF objs.t # "array"
    THEN CallResult(Raise(TypeError("objs.forEach is not a function")), objs, <<>>)
    ELSE validateEveryFrom(1, objs.items, <<>>)

\* The errors _aggregateErrors has caught when forEach ended as r.
caught(r) == IF r.out.k = "raise" THEN <<r.out.err>> ELSE <<>>

\* if (errors.length > 0) throw new AggregateError(errors)
throwCaught(r, errors) ==
  CallResult(IF Len(errors) > 0 THEN Raise(AggregateError(errors, <<>>))
             ELSE Return(Undef),
             r.obj, r.log)

aggregated(r) == throwCaught(r, caught(r))

\* _aggregateErrors(objs, (obj) => this.validate(obj))
aggregateErrors(objs) ==
  IF objs = Undef \/ objs = Null THEN CallResult(Raise(ThrownNull), objs, <<>>)
  ELSE aggregated(forEachValidate(objs))

matchEveryOrFail(objs) == TrueIfReturned(aggregateErrors(objs))

(***************************************************************************)
(* The asynchronous engine.  validateAsync starts one task per declared    *)
(* field; a task runs to its first await, and goes on when it is resumed.  *)
(***************************************************************************)
\* A field task: st is "await" (on the Promise of checker i, which settles to
\* settles), "returned" or "threw" (the pipeline ended, the task has not yet
\* gone on after its await) or "done".
Task(field, st, i, x, aliased, converted, settles, thrown) ==
  [field |-> field, st |-> st, i |-> i, x |-> x, aliased |-> aliased,
   converted |-> converted, settles |-> settles, thrown |-> thrown]

Progress(task, obj, log) == [task |-> task, obj |-> obj, log |-> log]

RECURSIVE validateFieldRawAsyncFrom(_, _, _, _, _, _, _, _)

\* The body of the loop of _validateFieldRawAsync once the i-th checker's
\* result res is there (awaited, if it was a Promise).
validateFieldRawAsyncOn(field, obj, e, i, x, aliased, converted, log, res) ==
  CASE res.k = "throw" ->
         Progress(Task(field, "threw", i, x, aliased, converted, NoError, res.err), obj, log)
    [] res.k = "true" ->
         validateFieldRawAsyncFrom(field, obj, e, i + 1, x, aliased, converted, log)
    [] res.k = "conversion" ->
         validateFieldRawAsyncFrom(field, obj, e, i + 1, res.converted, FALSE,
                                   res.converted, log)
    [] res = ROther(Null) ->
         Progress(Task(field, "threw", i, x, aliased, converted, NoError,
                       TypeError("Cannot read properties of null")), obj, log)
    [] OTHER ->
         Progress(Task(field, "threw", i, x, aliased, converted, NoError, ThrownNull),
                  obj, log)

\* res = res instanceof Promise ? await res : res
awaitIfPromise(field, obj, e, i, x, aliased, converted, log, res) ==
  IF res.k = "promise"
    THEN Progress(Task(field, "await", i, x, aliased, converted, res.settles, NoError),
                  obj, log)
    ELSE validateFieldRawAsyncOn(field, obj, e, i, x, aliased, converted, log, res)

\* The i-th checker was invoked and yielded r.
validateFieldRawAsyncInvoked(field, obj, e, i, x, aliased, converted, log, r) ==
  awaitIfPromise(field, IF aliased THEN [obj EXCEPT !.f[field] = r.x] ELSE obj,
                 e, i, r.x, aliased, converted,
                 Append(log, Invocation(e, <<field>>, i, FnsOf(field)[i], x)) \o r.log,
                 r.res)

\* The loop of _validateFieldRawAsync from the i-th checker to its next await.
validateFieldRawAsyncFrom(field, obj, e, i, x, aliased, converted, log) ==
  IF i > Len(FnsOf(field))
    THEN Progress(Task(field, "returned", i, x, aliased, converted, NoError, NoError),
                  obj, log)
    ELSE validateFieldRawAsyncInvoked(field, obj, e, i, x, aliased, converted, log,
                                      Invoke(FnsOf(field)[i], x, <<field>>, e))

\* A field task from its start to its first await.
startTask(field, obj, e, log) ==
  validateFieldRawAsyncFrom(field, obj, e, 1, obj.f[field], TRUE, Undef, log)

\* A variant that goes on as validate does, whatever the Promise settled to.
resumeTaskAsIfTrue(task, obj, e, log) ==
  validateFieldRawAsyncOn(task.field, obj, e, task.i, task.x, task.aliased,
                          task.converted, log, RTrue)

\* A task awaiting the Promise of its i-th checker goes on, to its next await.
resumeTask(task, obj, e, log) ==
  validateFieldRawAsyncOn(task.field, obj, e, task.i, task.x, task.aliased,
                          task.converted, log, task.settles)

\* One validateAsync call: its field tasks, the errors pushed so far, and
\* whether its promise is pending, resolved or rejected (with err).
Element(status, tasks, errors, err) ==
  [status |-> status, tasks |-> tasks, errors |-> errors, err |-> err]

Started(tasks, obj, log) == [tasks |-> tasks, obj |-> obj, log |-> log]

RECURSIVE startTasksFrom(_, _, _, _, _, _)

startTasksOn(i, fields, e, tasks, p) ==
  startTasksFrom(i, fields, p.obj, e, Append(tasks, p.task), p.log)

\* _keys(this.validations).map(async (field) => ...) from the i-th field on.
startTasksFrom(i, fields, obj, e, tasks, log) ==
  IF i > Len(fields) THEN Started(tasks, obj, log)
  ELSE startTasksOn(i + 1, fields, e, tasks, startTask(fields[i], obj, e, log))

StartedElement(el, obj, log) == [el |-> el, obj |-> obj, log |-> log]

pendingElement(s) == StartedElement(Element("pending", s.tasks, <<>>, NoError), s.obj, s.log)

\* validateAsync(obj) (validateFieldAsync for one field) to its first await.
startElement(fields, obj, e, log) ==
  IF assertNonNullObject(obj) # NoError
    THEN StartedElement(Element("rejected", <<>>, <<>>, assertNonNullObject(obj)), obj, log)
    ELSE pendingElement(startTasksFrom(1, fields, obj, e, <<>>, log))

RECURSIVE startElementsFrom(_, _, _, _)

startElementsOn(i, items, els, s) ==
  startElementsFrom(i + 1, [items EXCEPT ![i] = s.obj], Append(els, s.el), s.log)

\* objs.map((obj) => this.validateAsync(obj)) from the i-th element on.
startElementsFrom(i, items, els, log) ==
  IF i > Len(items) THEN [els |-> els, items |-> items, log |-> log]
  ELSE startElementsOn(i, items, els, startElement(Fields, items[i], i, log))

(***************************************************************************)
(* The calls of the caller.  The model follows one call, made on a fresh   *)
(* validator and value, to its end.                                        *)
(***************************************************************************)
Op(name, field) == [name |-> name, field |-> field]

Pending == [k |-> "pending"]
BulkOps == {"validateEveryAsync", "matchEveryAsync", "matchEveryOrFailAsync"}

Fresh == op.name = "none"

Finish(name, field, r) ==
  /\ Fresh
  /\ input' = r.obj
  /\ before' = input
  /\ op' = Op(name, field)
  /\ outcome' = r.out
  /\ invoked' = r.log
  /\ elems' = <<>>
  /\ UNCHANGED validations

Validate == Finish("validate", "", validate(input, <<>>, 0))

ValidateField ==
  \E i \in DOMAIN validations :
    Finish("validateField", validations[i].field, validateField(validations[i].field, input))

ValidateEvery == Finish("validateEvery", "", validateEvery(input))

Match == Finish("match", "", match(input, 0))

MatchOrFail == Finish("matchOrFail", "", matchOrFail(input, <<>>, 0))

MatchEvery == Finish("matchEvery", "", matchEvery(input))

MatchEveryOrFail == Finish("matchEveryOrFail", "", matchEveryOrFail(input))

\* The object the e-th validateAsync call works on.
ElementObj(e) == IF op.name \in BulkOps THEN input.items[e] ELSE input
WithElementObj(e, obj) ==
  IF op.name \in BulkOps THEN [input EXCEPT !.items[e] = obj] ELSE obj
\* The index the invocations of the e-th call are recorded under.
ElementIndex(e) == IF op.name \in BulkOps THEN e ELSE 0

\* What the promise of a single-object call settles to when its validateAsync
\* (its _cast, for validateFieldAsync) settles to c.
SingleOutcome(name, field, c, obj) ==
  CASE name = "matchAsync" -> Return(c.k = "return")
    [] name = "matchOrFailAsync" -> IF c.k = "return" THEN Return(TRUE) ELSE c
    [] name = "validateFieldAsync" -> IF c.k = "return" THEN Return(obj.f[field]) ELSE c
    [] OTHER -> c

StartedSingle(name, field, s) ==
  /\ Fresh
  /\ input' = s.obj
  /\ invoked' = s.log
  /\ elems' = <<s.el>>
  /\ outcome' = IF s.el.status = "rejected"
                  THEN SingleOutcome(name, field, Raise(s.el.err), input)
                  ELSE Pending
  /\ before' = input
  /\ op' = Op(name, field)
  /\ UNCHANGED validations

\* A single-object asynchronous call to its first await.
StartSingle(name, field, fields) ==
  StartedSingle(name, field, startElement(fields, input, 0, <<>>))

ValidateAsync == StartSingle("validateAsync", "", Fields)

ValidateFieldAsync ==
  \E i \in DOMAIN validations :
    StartSingle("validateFieldAsync", validations[i].field, <<validations[i].field>>)

MatchOrFailAsync == StartSingle("matchOrFailAsync", "", Fields)

\* matchAsync: false at once for a non-object, else await validateAsync(obj).
MatchAsync ==
  IF ~TypeofObject(input) \/ input = Null
    THEN /\ Fresh
         /\ outcome' = Return(FALSE)
         /\ before' = input
         /\ op' = Op("matchAsync", "")
         /\ invoked' = <<>>
         /\ elems' = <<>>
         /\ UNCHANGED <<validations, input>>
    ELSE StartSingle("matchAsync", "", Fields)

AllResolved(els) == \A e \in DOMAIN els : els[e].status = "resolved"
AllSettled(els) == \A e \in DOMAIN els : els[e].status # "pending"

StartedBulk(name, s) ==
  /\ input' = Arr(s.items)
  /\ invoked' = s.log
  /\ elems' = s.els
  /\ outcome' = IF s.els = <<>>
                  THEN Return(IF name = "validateEveryAsync" THEN Arr(s.items) ELSE TRUE)
                  ELSE Pending

\* A bulk asynchronous call to its first await.
StartBulk(name, notArray) ==
  /\ Fresh
  /\ before' = input
  /\ op' = Op(name, "")
  /\ UNCHANGED validations
  /\ IF input.t # "array"
       THEN /\ outcome' = Raise(TypeError(notArray))
            /\ invoked' = <<>>
            /\ elems' = <<>>
            /\ UNCHANGED input
       ELSE StartedBulk(name, startElementsFrom(1, input.items, <<>>, <<>>))

ValidateEveryAsync == StartBulk("validateEveryAsync", "Must be an array")

MatchEveryAsync == StartBulk("matchEveryAsync", "objs.map is not a function")

MatchEveryOrFailAsync == StartBulk("matchEveryOrFailAsync", "objs.map is not a function")

Resumed(e, t, p) ==
  /\ elems' = [elems EXCEPT ![e].tasks[t] = p.task]
  /\ input' = WithElementObj(e, p.obj)
  /\ invoked' = p.log

\* The Promise a task awaits has settled: the task goes on to its next await.
ResumeTask ==
  \E e \in DOMAIN elems : \E t \in DOMAIN elems[e].tasks :
    /\ elems[e].tasks[t].st = "await"
    /\ Resumed(e, t, resumeTask(elems[e].tasks[t], ElementObj(e), ElementIndex(e), invoked))
    /\ UNCHANGED <<validations, before, op, outcome>>

\* A task whose pipeline has ended goes on after its await: it writes the
\* converted value back, or pushes the error.
FinishedTask(e, t, task, obj) ==
  /\ task.st \in {"returned", "threw"}
  /\ IF task.st = "returned"
       THEN /\ input' = WithElementObj(e, writeBack(obj, task.field, task.converted))
            /\ elems' = [elems EXCEPT ![e].tasks[t].st = "done"]
       ELSE /\ elems' = [elems EXCEPT
                 ![e].tasks[t].st = "done",
                 ![e].errors = pushError(task.thrown, task.field, obj.f[task.field], @)]
            /\ UNCHANGED input
  /\ UNCHANGED <<validations, before, op, outcome, invoked>>

FinishTask ==
  \E e \in DOMAIN elems : \E t \in DOMAIN elems[e].tasks :
    FinishedTask(e, t, elems[e].tasks[t], ElementObj(e))

\* The elements once the e-th validateAsync call has settled to c.
SettledTo(e, c) ==
  [elems EXCEPT ![e].status = IF c.k = "raise" THEN "rejected" ELSE "resolved",
                ![e].err = IF c.k = "raise" THEN c.err ELSE NoError]

\* What the caller's promise is once the e-th call has settled to c, the
\* elements then being settled: Promise.all is rejected by the first call
\* that rejects, and resolved when every call has resolved.
OutcomeOnSettle(e, c, settled) ==
  CASE op.name \notin BulkOps -> SingleOutcome(op.name, op.field, c, ElementObj(e))
    [] op.name = "matchEveryAsync" ->
         IF AllSettled(settled) THEN Return(AllResolved(settled)) ELSE outcome
    [] OTHER ->
         IF outcome # Pending THEN outcome
         ELSE IF c.k = "raise" THEN c
         ELSE IF AllResolved(settled)
           THEN Return(IF op.name = "validateEveryAsync" THEN input ELSE TRUE)
         ELSE outcome

Settled(e, c) ==
  /\ elems' = SettledTo(e, c)
  /\ outcome' = OutcomeOnSettle(e, c, SettledTo(e, c))

\* A variant that settles a call as soon as one of its tasks has pushed an error.
SettleElementOnFirstError ==
  \E e \in DOMAIN elems :
    /\ elems[e].status = "pending"
    /\ \/ elems[e].errors # <<>>
       \/ \A t \in DOMAIN elems[e].tasks : elems[e].tasks[t].st = "done"
    /\ Settled(e, cast(ElementObj(e), elems[e].errors))
    /\ UNCHANGED <<validations, input, before, op, invoked>>

\* Every task of a validateAsync call is done: the call settles to _cast, and
\* with it the caller's promise when this decides it.
SettleElement ==
  \E e \in DOMAIN elems :
    /\ elems[e].status = "pending"
    /\ \A t \in DOMAIN elems[e].tasks : elems[e].tasks[t].st = "done"
    /\ Settled(e, cast(ElementObj(e), elems[e].errors))
    /\ UNCHANGED <<validations, input, before, op, invoked>>

(***************************************************************************)
(* The validators and the initial state.                                   *)
(***************************************************************************)
HeadPipelines ==
  { <<"isNumber">>, <<"toInt", "isPositive">>, <<"toUndefined">>, <<"throws">>,
    <<"returnsNull">>, <<"returnsOne">>, <<"asyncIsNumber">>,
    <<"asyncToInt", "isPositive">> }
\* Longer pipelines as well: a Promise after a conversion, a checker after one
\* that can fail.
AsyncHeadPipelines ==
  HeadPipelines \union
    { <<"toInt", "asyncIsNumber", "isPositive">>, <<"isNumber", "isPositive">>,
      <<"asyncIsNumber", "isPositive">> }
TailPipelines == { <<"isUndefinedOrList">>, <<"isUndefined">> }
\* The extra field is declared or not (<<>>).
ExtraPipelines == { <<>>, <<"isString">>, <<"toInt">> }

ValidationsOf(heads) ==
  { <<[field |-> "head", fns |-> h], [field |-> "tail", fns |-> tl]>>
      \o (IF ex = <<>> THEN <<>> ELSE <<[field |-> "extra", fns |-> ex]>>) :
      h \in heads, tl \in TailPipelines, ex \in ExtraPipelines }

Validations == ValidationsOf(HeadPipelines)
AsyncValidations == ValidationsOf(AsyncHeadPipelines)

InitWith(validators, inputs) ==
  /\ validations \in validators
  /\ input \in inputs
  /\ before = input
  /\ op = Op("none", "")
  /\ outcome = [k |-> "none"]
  /\ invoked = <<>>
  /\ elems = <<>>

Init == InitWith(Validations, InputsOfDepth(MaxDepth))

\* The synchronous calls.
Next ==
  \/ Validate
  \/ ValidateField
  \/ ValidateEvery
  \/ Match
  \/ MatchOrFail
  \/ MatchEvery
  \/ MatchEveryOrFail

Spec == Init /\ [][Next]_vars

AsyncInit == InitWith(AsyncValidations, InputsOfDepth(MaxAsyncDepth))

\* Every call, and the steps of the asynchronous ones.
AsyncNext ==
  \/ Next
  \/ ValidateAsync
  \/ ValidateFieldAsync
  \/ ValidateEveryAsync
  \/ MatchAsync
  \/ MatchOrFailAsync
  \/ MatchEveryAsync
  \/ MatchEveryOrFailAsync
  \/ ResumeTask
  \/ FinishTask
  \/ SettleElement

AsyncSpec == AsyncInit /\ [][AsyncNext]_vars

(***************************************************************************)
(* What the claims speak of.                                               *)
(***************************************************************************)
IsCandidate(x) == assertNonNullObject(x) = NoError

\* The fields whose pipeline, run on its own on obj, fails.
FailingFields(obj) ==
  {i \in DOMAIN validations :
     validateFieldRaw(validations[i].field, obj, <<>>, 0).thrown # NoError}

RECURSIVE RunTask(_)
\* A field task run on its own to the end of its pipeline.
RunTask(p) ==
  IF p.task.st = "await" THEN RunTask(resumeTask(p.task, p.obj, 0, p.log)) ELSE p

\* The fields whose asynchronous pipeline, run on its own on obj, fails.
FailingFieldsAsync(obj) ==
  {i \in DOMAIN validations :
     RunTask(startTask(validations[i].field, obj, 0, <<>>)).task.st = "threw"}

RECURSIVE LeavesOf(_)
RECURSIVE LeavesOfAll(_)
\* The errors that are not aggregates in err, at any depth, left to right.
LeavesOf(err) ==
  IF err.k = "AggregateError" THEN LeavesOfAll(err.errors) ELSE <<err>>
LeavesOfAll(errors) ==
  IF errors = <<>> THEN <<>> ELSE LeavesOf(Head(errors)) \o LeavesOfAll(Tail(errors))

\* The top-level field an entry of the error list stands for.
TopField(entry) == LeavesOf(entry)[1].field[1]

HasSettled == outcome.k \in {"return", "raise"}
ValidateDone == op.name = "validate" /\ IsCandidate(before)
ValidateAsyncDone == op.name = "validateAsync" /\ IsCandidate(before) /\ HasSettled

\* C1: validate runs the pipeline of every declared field, whatever failed
\* before it, and when k >= 2 fields fail it raises an AggregateError with
\* exactly k entries, one for each failing field.
C1_CollectAll ==
  ValidateDone =>
    /\ \A i \in DOMAIN validations :
         \E j \in DOMAIN invoked :
           invoked[j].path = <<validations[i].field>> /\ invoked[j].i = 1
    /\ Cardinality(FailingFields(before)) >= 2 =>
         /\ outcome.k = "raise"
         /\ outcome.err.k = "AggregateError"
         /\ Len(outcome.err.errors) = Cardinality(FailingFields(before))
         /\ {TopField(outcome.err.errors[j]) : j \in DOMAIN outcome.err.errors}
              = {validations[i].field : i \in FailingFields(before)}

\* Three fields fail, one of them with the aggregate of a nested validator.
C1_Witness ==
  /\ ValidateDone
  /\ Cardinality(FailingFields(before)) = 3
  /\ \E j \in DOMAIN outcome.err.errors : outcome.err.errors[j].k = "AggregateError"

\* The escalation of a call that found the fields failing to fail, as the
\* claim states it.
EscalatesAsClaimed(failing) ==
  /\ failing = {} => outcome = Return(input)
  /\ Cardinality(failing) = 1 =>
       outcome.k = "raise" /\ outcome.err.k = "ValidationError"
  /\ Cardinality(failing) > 1 =>
       /\ outcome.k = "raise"
       /\ outcome.err.k = "AggregateError"
       /\ Len(outcome.err.errors) = Cardinality(failing)

\* C2 as claimed: no failing field: the candidate is returned; one: that
\* Field Error is raised, not an aggregate; more: one aggregate of them all.
C2_Escalation ==
  /\ ValidateDone => EscalatesAsClaimed(FailingFields(before))
  /\ ValidateAsyncDone => EscalatesAsClaimed(FailingFieldsAsync(before))

\* What the pipeline of the only failing field raised.
RaisedBy(failing) ==
  validateFieldRaw(validations[CHOOSE i \in failing : TRUE].field, before, <<>>, 0).thrown

\* The escalation with the single entry raised as it is: a Field Error, or
\* the aggregate a nested validator raised, with its entries and no more.
Escalates(failing, raised) ==
  /\ failing = {} => outcome = Return(input)
  /\ Cardinality(failing) = 1 =>
       /\ outcome.k = "raise"
       /\ IF raised.k = "AggregateError"
            THEN /\ outcome.err.k = "AggregateError"
                 /\ Len(outcome.err.errors) = Len(raised.errors)
                 /\ \A j \in DOMAIN outcome.err.errors :
                      TopField(outcome.err.errors[j])
                        = validations[CHOOSE i \in failing : TRUE].field
            ELSE /\ outcome.err.k = "ValidationError"
                 /\ outcome.err.field = <<validations[CHOOSE i \in failing : TRUE].field>>
  /\ Cardinality(failing) > 1 =>
       /\ outcome.k = "raise"
       /\ outcome.err.k = "AggregateError"
       /\ Len(outcome.err.errors) = Cardinality(failing)

\* A settled call stays settled as it is.
SettlesOnce == HasSettled => outcome' = outcome

\* C2, amended: with one failing field the call raises the single entry it
\* collected as it is, unwrapped: the Field Error, or the Aggregate Error of a
\* nested validator.  A call returns or raises, once.
C2_EscalationOfEntries ==
  /\ [](ValidateDone =>
          Escalates(FailingFields(before), RaisedBy(FailingFields(before))))
  /\ [](ValidateAsyncDone =>
          Escalates(FailingFieldsAsync(before), RaisedBy(FailingFieldsAsync(before))))
  /\ [][op.name \in {"validate", "validateAsync"} => SettlesOnce]_vars

\* validateAsync raised, as it is, the aggregate a nested validator raised for
\* the only failing field.
C2_Witness ==
  /\ ValidateAsyncDone
  /\ Cardinality(FailingFieldsAsync(before)) = 1
  /\ outcome.k = "raise"
  /\ outcome.err.k = "AggregateError"

\* The invocation is where a failure arose: the checker rejected its
\* argument, or the nested validator it calls refused it as no object.
LeafFails(c) ==
  IF c.fn = "isUndefinedOrList"
    THEN c.x # Undef /\ ~IsCandidate(c.x)
    ELSE Invoke(c.fn, c.x, c.path, c.e).res.k \in {"false", "other", "throw"}

\* C3: the Field Errors that leave validate carry the dot-joined paths, from
\* the root, of the places where a checker failed.
C3_DottedPaths ==
  (ValidateDone /\ outcome.k = "raise") =>
    {LeavesOf(outcome.err)[j].field : j \in DOMAIN LeavesOf(outcome.err)}
      = {invoked[j].path : j \in {n \in DOMAIN invoked : LeafFails(invoked[n])}}

\* C4: the message of an Aggregate Error raised by validate is the header,
\* once, and then one '\n- ' and one line for each Field Error in it, at any
\* depth.
C4_OneHeader ==
  (ValidateDone /\ outcome.k = "raise" /\ outcome.err.k = "AggregateError") =>
    /\ Cardinality({i \in DOMAIN outcome.err.message : outcome.err.message[i] = HDR}) = 1
    /\ outcome.err.message[1] = HDR
    /\ Len(outcome.err.message) = 2 * Len(LeavesOf(outcome.err)) + 1
    /\ \A n \in DOMAIN LeavesOf(outcome.err) :
         /\ outcome.err.message[2 * n] = SEP
         /\ outcome.err.message[2 * n + 1].t = "Validation failed for"

\* validate raised an aggregate that holds an aggregate that holds an aggregate.
C4_Witness ==
  /\ ValidateDone
  /\ outcome.k = "raise"
  /\ outcome.err.k = "AggregateError"
  /\ \E i \in DOMAIN outcome.err.errors :
       /\ outcome.err.errors[i].k = "AggregateError"
       /\ \E j \in DOMAIN outcome.err.errors[i].errors :
            outcome.err.errors[i].errors[j].k = "AggregateError"

\* The invocations of the pipeline of field that yielded a conversion envelope.
ConversionsOf(field) ==
  {j \in DOMAIN invoked :
     /\ invoked[j].path = <<field>>
     /\ Invoke(invoked[j].fn, invoked[j].x, <<field>>, 0).res.k = "conversion"}

Last(S) == CHOOSE j \in S : \A n \in S : n <= j

\* The slot holds what it held: the same value, or the same object, which a
\* nested validator may have converted fields of.
SameSlot(was, is) ==
  \/ is = was
  \/ was.t = "object" /\ is = validate(was, <<>>, 0).obj

\* C5: after validate returns, a field whose pipeline converted holds the last
\* converted value, whatever that value is, and any other field holds what it
\* held.
C5_WriteBack ==
  (ValidateDone /\ outcome.k = "return") =>
    \A i \in DOMAIN validations :
      IF ConversionsOf(validations[i].field) # {}
        THEN input.f[validations[i].field]
               = Invoke(invoked[Last(ConversionsOf(validations[i].field))].fn,
                        invoked[Last(ConversionsOf(validations[i].field))].x,
                        <<validations[i].field>>, 0).res.converted
        ELSE SameSlot(before.f[validations[i].field], input.f[validations[i].field])

NonNullObject(x) == TypeofObject(x) /\ x # Null

\* C6: match and matchAsync never raise; they yield false exactly when the
\* value is no non-null object or validate (validateAsync) would raise on it.
C6_MatchNeverRaises ==
  /\ op.name = "match" =>
       outcome = Return(NonNullObject(before)
                          /\ validate(before, <<>>, 0).out.k = "return")
  /\ op.name = "matchAsync" => outcome.k \in {"pending", "return"}
  /\ (op.name = "matchAsync" /\ HasSettled) =>
       outcome = Return(/\ NonNullObject(before)
                        /\ IsCandidate(before)
                        /\ FailingFieldsAsync(before) = {})

\* match and matchAsync said false of an object whose checker threw, and of an array.
C6_Witness ==
  \/ /\ op.name = "matchAsync"
     /\ outcome = Return(FALSE)
     /\ \E j \in DOMAIN invoked : invoked[j].fn = "throws"
  \/ /\ op.name = "match"
     /\ outcome = Return(FALSE)
     /\ before.t = "array"

\* The elements of the array objs on which validate raises.
FailingElements(objs) ==
  {i \in DOMAIN objs.items : validate(objs.items[i], <<>>, i).out.k = "raise"}

\* C7: matchEveryOrFail validates every element, and raises an aggregate
\* with the failure of each failing element.
C7_CollectsEveryElement ==
  (op.name = "matchEveryOrFail" /\ before.t = "array") =>
    /\ \A i \in DOMAIN before.items : \E j \in DOMAIN invoked : invoked[j].e = i
    /\ FailingElements(before) # {} =>
         /\ outcome.k = "raise"
         /\ outcome.err.k = "AggregateError"
         /\ Len(outcome.err.errors) = Cardinality(FailingElements(before))

\* The elements of the array objs on which validateAsync raises.
FailingElementsAsync(objs) ==
  {i \in DOMAIN objs.items :
     ~IsCandidate(objs.items[i]) \/ FailingFieldsAsync(objs.items[i]) # {}}

\* C8: matchEveryOrFailAsync rejects with an aggregate of the failures of
\* the failing elements.
C8_AsyncCollectsEveryElement ==
  (op.name = "matchEveryOrFailAsync" /\ before.t = "array" /\ outcome.k = "raise") =>
    /\ outcome.err.k = "AggregateError"
    /\ Len(outcome.err.errors) = Cardinality(FailingElementsAsync(before))
    /\ \A j \in DOMAIN outcome.err.errors :
         \E i \in FailingElementsAsync(before) :
           elems[i].status = "rejected" => outcome.err.errors[j] = elems[i].err

First(S) == CHOOSE j \in S : \A n \in S : j <= n

\* C9: validateEvery validates the elements in order and raises the error of
\* the first that fails; the elements after it are neither checked nor
\* changed, those before it keep their conversions.
C9_FailFast ==
  (op.name = "validateEvery" /\ before.t = "array") =>
    /\ \A m, n \in DOMAIN invoked : m <= n => invoked[m].e <= invoked[n].e
    /\ IF FailingElements(before) = {}
         THEN outcome = Return(input)
         ELSE /\ outcome = Raise(validate(before.items[First(FailingElements(before))],
                                          <<>>, First(FailingElements(before))).out.err)
              /\ \A n \in DOMAIN invoked : invoked[n].e <= First(FailingElements(before))
    /\ \A i \in DOMAIN before.items :
         input.items[i] =
           IF FailingElements(before) # {} /\ i > First(FailingElements(before))
             THEN before.items[i]
             ELSE validate(before.items[i], <<>>, i).obj

\* validateEvery raised on the first element; the second, which validate
\* would have converted, is as it was, and an element before a failing one
\* was converted.
C9_Witness ==
  /\ op.name = "validateEvery"
  /\ before.t = "array"
  /\ Len(before.items) = 2
  /\ FailingElements(before) = {1}
  /\ validate(before.items[2], <<>>, 2).obj # before.items[2]
  /\ input.items[2] = before.items[2]

ShapeOps == {"validate", "validateField", "validateAsync", "validateFieldAsync"}

\* C10: on a value that is null, an array or no object, the four calls raise
\* the input-shape error itself, at once, invoke no checker and change nothing.
C10_InputShape ==
  (op.name \in ShapeOps /\ ~IsCandidate(before)) =>
    /\ outcome.k = "raise"
    /\ outcome.err.k = "TypeError"
    /\ outcome.err = assertNonNullObject(before)
    /\ invoked = <<>>
    /\ input = before
    /\ \A e \in DOMAIN elems : elems[e].tasks = <<>>

\* validateFieldAsync was given an array.
C10_Witness ==
  /\ op.name = "validateFieldAsync"
  /\ before.t = "array"
  /\ outcome.k = "raise"

\* validateAsync was called on a candidate object.
ValidateAsyncCalled == op.name = "validateAsync" /\ IsCandidate(before)

\* C11: validateAsync has started the pipeline of every declared field before
\* it waits on any; it settles only when every field task has ended, never
\* while one is still running, and the error it raises has an entry for each
\* failing field.
C11_WaitsForAll ==
  ValidateAsyncCalled =>
    /\ Len(elems[1].tasks) = Len(validations)
    /\ \A i \in DOMAIN validations :
         /\ elems[1].tasks[i].field = validations[i].field
         /\ \E j \in DOMAIN invoked :
              invoked[j].path = <<validations[i].field>> /\ invoked[j].i = 1
    /\ HasSettled =>
         /\ \A t \in DOMAIN elems[1].tasks : elems[1].tasks[t].st = "done"
         /\ elems[1].status # "pending"
    /\ outcome.k = "raise" =>
         {TopField(LeavesOf(outcome.err)[j]) : j \in DOMAIN LeavesOf(outcome.err)}
           = {validations[i].field : i \in FailingFieldsAsync(before)}

\* The tail field failed while the pipeline of head was awaiting a Promise;
\* the call rejected later, with the error of tail before that of head.
C11_Witness ==
  /\ ValidateAsyncCalled
  /\ \E j \in DOMAIN invoked : invoked[j].fn \in {"asyncIsNumber", "asyncToInt"}
  /\ outcome.k = "raise"
  /\ outcome.err.k = "AggregateError"
  /\ Len(outcome.err.errors) = 2
  /\ TopField(outcome.err.errors[1]) = "tail"
  /\ TopField(outcome.err.errors[2]) = "head"

\* C12: the promise of validateEveryAsync or matchEveryOrFailAsync is not
\* rejected while the validateAsync of an element is still running: once the
\* bulk call has raised, no field pipeline of any element is still waiting
\* on the Promise of a checker, to go on and change its element later.
C12_BulkRunsToCompletion ==
  (op.name \in {"validateEveryAsync", "matchEveryOrFailAsync"} /\ outcome.k = "raise") =>
    \A e \in DOMAIN elems : \A t \in DOMAIN elems[e].tasks :
      elems[e].tasks[t].st # "await"

\* What the checker of the invocation c returned.
ResultOf(c) == Invoke(c.fn, c.x, c.path, c.e).res

\* No checker of the pipeline of c was invoked after c.
LastOfPipeline(c) ==
  \A k \in DOMAIN invoked :
    (invoked[k].e = c.e /\ invoked[k].path = c.path) => invoked[k].i <= c.i

\* The top-level fields the raised error has an entry for.
RaisedFields ==
  IF outcome.k = "raise"
    THEN {TopField(LeavesOf(outcome.err)[j]) : j \in DOMAIN LeavesOf(outcome.err)}
    ELSE {}

\* C13: in validate a checker result that is a Promise does nothing: the next
\* checker is invoked on the same value, nothing is recorded as converted,
\* and what the Promise settles to does not show in the outcome.  In
\* validateAsync the pipeline goes on with what the Promise resolved to.
C13_SyncIgnoresPromise ==
  /\ ValidateDone =>
       /\ \A j \in DOMAIN invoked :
            ResultOf(invoked[j]).k = "promise" =>
              IF invoked[j].i < Len(FnsOf(invoked[j].path[Len(invoked[j].path)]))
                THEN /\ j + 1 \in DOMAIN invoked
                     /\ invoked[j + 1].path = invoked[j].path
                     /\ invoked[j + 1].i = invoked[j].i + 1
                     /\ invoked[j + 1].x = invoked[j].x
                ELSE LastOfPipeline(invoked[j])
       /\ RaisedFields =
            {invoked[j].path[1] : j \in {n \in DOMAIN invoked : LeafFails(invoked[n])}}
       /\ \A i \in DOMAIN validations :
            (ConversionsOf(validations[i].field) = {}
               /\ validations[i].field \notin RaisedFields) =>
              SameSlot(before.f[validations[i].field], input.f[validations[i].field])
  /\ ValidateAsyncDone =>
       \A j \in DOMAIN invoked :
         (ResultOf(invoked[j]).k = "promise" /\ Len(invoked[j].path) = 1) =>
           CASE ResultOf(invoked[j]).settles.k \in {"false", "other", "throw"} ->
                  /\ invoked[j].path[1] \in RaisedFields
                  /\ LastOfPipeline(invoked[j])
             [] invoked[j].i = Len(FnsOf(invoked[j].path[1])) -> TRUE
             [] ResultOf(invoked[j]).settles.k = "conversion" ->
                  \E k \in DOMAIN invoked :
                    /\ k > j
                    /\ invoked[k].path = invoked[j].path
                    /\ invoked[k].i = invoked[j].i + 1
                    /\ invoked[k].x = ResultOf(invoked[j]).settles.converted
             [] OTHER ->
                  \E k \in DOMAIN invoked :
                    /\ k > j
                    /\ invoked[k].path = invoked[j].path
                    /\ invoked[k].i = invoked[j].i + 1
                    /\ invoked[k].x = invoked[j].x

\* validate returned although a checker gave a Promise that resolves to
\* false, and went on, after one that resolves to a conversion, with the value
\* as it was.
C13_Witness ==
  /\ ValidateDone
  /\ outcome.k = "return"
  /\ \/ \E j \in DOMAIN invoked :
          /\ invoked[j].fn = "asyncIsNumber"
          /\ ResultOf(invoked[j]).settles.k = "false"
     \/ \E j \in DOMAIN invoked :
          /\ invoked[j].fn = "asyncToInt"
          /\ invoked[j].x = Str("4")
          /\ invoked[j + 1].x = Str("4")

\* What a Promise settles to, or the result itself.
Resolved(r) == IF r.k = "promise" THEN r.settles ELSE r

\* The result of c the pipeline has before it: validateAsync awaits a Promise.
Acted(c) == IF op.name = "validateAsync" THEN Resolved(ResultOf(c)) ELSE ResultOf(c)

\* The invocations of the pipelines of the declared fields of the candidate.
OfPipelines == {j \in DOMAIN invoked : Len(invoked[j].path) = 1}

\* The pipelines of a call of validate or validateAsync, as far as they got:
\* the checkers of a field are invoked in declared order, each on what the
\* last conversion before it gave, or on what the slot held, and none after a
\* result that is not in passing.
PipelineOrder(passing) ==
  \A j \in OfPipelines :
    /\ invoked[j].fn = FnsOf(invoked[j].path[1])[invoked[j].i]
    /\ \A k \in OfPipelines :
         (k < j /\ invoked[k].path = invoked[j].path) => invoked[k].i < invoked[j].i
    /\ IF invoked[j].i = 1
         THEN invoked[j].x = before.f[invoked[j].path[1]]
         ELSE \E k \in OfPipelines :
                /\ k < j
                /\ invoked[k].path = invoked[j].path
                /\ invoked[k].i = invoked[j].i - 1
                /\ invoked[j].x = IF Acted(invoked[k]).k = "conversion"
                                    THEN Acted(invoked[k]).converted
                                    ELSE invoked[k].x
    /\ Acted(invoked[j]).k \notin passing => LastOfPipeline(invoked[j])

\* A field task that waits on the Promise of its i-th checker has invoked no
\* checker after it.
AwaitsBeforeNext ==
  \A e \in DOMAIN elems : \A t \in DOMAIN elems[e].tasks :
    elems[e].tasks[t].st = "await" =>
      \A k \in DOMAIN invoked :
        (invoked[k].e = ElementIndex(e) /\ invoked[k].path = <<elems[e].tasks[t].field>>)
          => invoked[k].i <= elems[e].tasks[t].i

\* validate or validateAsync was called on a candidate object.
ValidateOrAsyncCalled == op.name \in {"validate", "validateAsync"} /\ IsCandidate(before)

\* C14, as claimed: in both variants the first result that is neither true
\* nor a conversion envelope ends the pipeline.
C14_PipelineOrder ==
  /\ ValidateOrAsyncCalled => PipelineOrder({"true", "conversion"})
  /\ AwaitsBeforeNext

\* A pipeline that ended without a failure invoked every checker of the field.
RanToEnd ==
  \A j \in OfPipelines :
    (/\ invoked[j].path[1] \notin RaisedFields
     /\ invoked[j].i < Len(FnsOf(invoked[j].path[1]))) =>
      \E k \in OfPipelines :
        invoked[k].path = invoked[j].path /\ invoked[k].i = invoked[j].i + 1

\* C14, amended: the checkers of a field are invoked one at a time in declared
\* order, each on what the last conversion before it gave (or on what the
\* slot held); the first result that is neither true nor a conversion
\* envelope nor, in validate, a Promise ends the pipeline, and validateAsync
\* invokes no checker before the Promise of the one before it has settled.
C14_PipelineOrderPromiseAside ==
  /\ ValidateOrAsyncCalled =>
       PipelineOrder(IF op.name = "validate"
                       THEN {"true", "conversion", "promise"}
                       ELSE {"true", "conversion"})
  /\ (ValidateOrAsyncCalled /\ HasSettled) => RanToEnd
  /\ AwaitsBeforeNext

\* In validate the third checker of a pipeline was invoked on what the first
\* had converted the slot to, the second having returned a Promise.
C14_Witness ==
  /\ ValidateDone
  /\ \E j \in OfPipelines :
       /\ invoked[j].i = 3
       /\ before.f[invoked[j].path[1]] = Str("4")
       /\ invoked[j].x = Num(4)
       /\ ResultOf(invoked[j - 1]).k = "promise"

\* The place of a declared field in the declaration.
FieldIndex(field) == CHOOSE i \in DOMAIN validations : validations[i].field = field

RECURSIVE AfterFields(_)
\* The candidate, the errors and the invocations of validate(before) once
\* the first n declared fields are done.
AfterFields(n) ==
  IF n = 0 THEN Collected(before, <<>>, <<>>)
  ELSE validateFieldStep(validations[n].field, AfterFields(n - 1).obj,
                         AfterFields(n - 1).errors, AfterFields(n - 1).log, <<>>, 0)

\* C15: validate takes the fields in the order of their declaration: when
\* the first checker of a field is invoked, the pipelines of the fields
\* before it have ended and their conversions are written into the
\* candidate; the entries of a raised Aggregate Error are in the order of
\* declaration of the failing fields.
C15_FieldOrder ==
  ValidateDone =>
    /\ \A j, k \in DOMAIN invoked :
         j < k => FieldIndex(invoked[j].path[1]) <= FieldIndex(invoked[k].path[1])
    /\ \A n \in DOMAIN validations :
         /\ Len(AfterFields(n - 1).log) < Len(invoked)
         /\ invoked[Len(AfterFields(n - 1).log) + 1]
              = Invocation(0, <<validations[n].field>>, 1, validations[n].fns[1],
                           AfterFields(n - 1).obj.f[validations[n].field])
         /\ \A j \in 1..Len(AfterFields(n - 1).log) :
              /\ invoked[j] = AfterFields(n - 1).log[j]
              /\ FieldIndex(invoked[j].path[1]) < n
         /\ \A m \in 1..(n - 1) :
              AfterFields(n - 1).obj.f[validations[m].field] = input.f[validations[m].field]
    /\ Cardinality(FailingFields(before)) >= 2 =>
         /\ outcome.k = "raise"
         /\ outcome.err.k = "AggregateError"
         /\ \A a, b \in DOMAIN outcome.err.errors :
              a < b => FieldIndex(TopField(outcome.err.errors[a]))
                         < FieldIndex(TopField(outcome.err.errors[b]))

\* validate of a validator of three fields converted the first and raised the
\* errors of the second and the third.
C15_Witness ==
  /\ ValidateDone
  /\ Len(validations) = 3
  /\ input.f[validations[1].field] # before.f[validations[1].field]
  /\ outcome.k = "raise"
  /\ outcome.err.k = "AggregateError"
  /\ Len(outcome.err.errors) = 2
  /\ TopField(outcome.err.errors[1]) = validations[2].field
  /\ TopField(outcome.err.errors[2]) = validations[3].field

RECURSIVE ResolvedRawFrom(_, _, _, _, _, _, _)

\* The loop of _validateFieldRaw on the i-th checker's result, the checker
\* having returned r, what its Promise resolves to taken for its result.
ResolvedRawOn(field, obj, i, x, aliased, converted, log, r) ==
  CASE Resolved(r.res).k = "throw" -> RawResult(Resolved(r.res).err, converted, obj, log)
    [] Resolved(r.res).k = "true" ->
         ResolvedRawFrom(field, obj, i + 1, x, aliased, converted, log)
    [] Resolved(r.res).k = "conversion" ->
         ResolvedRawFrom(field, obj, i + 1, Resolved(r.res).converted, FALSE,
                         Resolved(r.res).converted, log)
    [] Resolved(r.res) = ROther(Null) ->
         RawResult(TypeError("Cannot read properties of null"), converted, obj, log)
    [] OTHER -> RawResult(ThrownNull, converted, obj, log)

\* _validateFieldRaw from the i-th checker on, with checkers that return
\* directly what their Promise resolves to.
ResolvedRawFrom(field, obj, i, x, aliased, converted, log) ==
  IF i > Len(FnsOf(field)) THEN RawResult(NoError, converted, obj, log)
  ELSE ResolvedRawOn(field, IF aliased
                              THEN [obj EXCEPT !.f[field] =
                                      Invoke(FnsOf(field)[i], x, <<field>>, 0).x]
                              ELSE obj,
                     i, Invoke(FnsOf(field)[i], x, <<field>>, 0).x, aliased, converted,
                     Append(log, Invocation(0, <<field>>, i, FnsOf(field)[i], x))
                       \o Invoke(FnsOf(field)[i], x, <<field>>, 0).log,
                     Invoke(FnsOf(field)[i], x, <<field>>, 0))

RECURSIVE ResolvedAfterFields(_)
\* validate(before) after its first n fields, with such checkers.
ResolvedAfterFields(n) ==
  IF n = 0 THEN Collected(before, <<>>, <<>>)
  ELSE tryCatch(validations[n].field, ResolvedAfterFields(n - 1).errors,
                ResolvedAfterFields(n - 1).log,
                ResolvedRawFrom(validations[n].field, ResolvedAfterFields(n - 1).obj, 1,
                                ResolvedAfterFields(n - 1).obj.f[validations[n].field],
                                TRUE, Undef, <<>>))

\* What validate(before) yields with such checkers.
ResolvedValidate == castCollected(ResolvedAfterFields(Len(validations)))

\* No checker of the validator returns a Promise.
NoPromiseChecker ==
  \A i \in DOMAIN validations : \A n \in DOMAIN validations[i].fns :
    validations[i].fns[n] \notin {"asyncIsNumber", "asyncToInt"}

\* The set of the errors that are not aggregates in the raised error.
RaisedLeaves(out) ==
  IF out.k = "raise" THEN {LeavesOf(out.err)[j] : j \in DOMAIN LeavesOf(out.err)} ELSE {}

\* C16: however the field tasks of validateAsync interleave, the call ends
\* with the candidate and the failing fields that validate gives when the
\* checkers return directly what their Promises resolve to; the entries of
\* an aggregate may come in another order.
C16_InterleavingIndependent ==
  /\ ValidateAsyncDone =>
       /\ input = ResolvedValidate.obj
       /\ outcome.k = ResolvedValidate.out.k
       /\ outcome.k = "return" => outcome = ResolvedValidate.out
       /\ RaisedFields = {validations[i].field : i \in FailingFieldsAsync(before)}
       /\ RaisedLeaves(outcome) = RaisedLeaves(ResolvedValidate.out)
       /\ outcome.k = "raise" =>
            /\ outcome.err.k = ResolvedValidate.out.err.k
            /\ outcome.err.k = "AggregateError" =>
                 Len(outcome.err.errors) = Len(ResolvedValidate.out.err.errors)
  /\ (ValidateDone /\ NoPromiseChecker) =>
       /\ input = ResolvedValidate.obj
       /\ outcome = ResolvedValidate.out
       /\ invoked = ResolvedValidate.log

\* validateAsync wrote the conversion a Promise resolved to and raised the
\* errors of two fields in the order opposite to their declaration.
C16_Witness ==
  /\ ValidateAsyncDone
  /\ \E j \in OfPipelines :
       /\ ResultOf(invoked[j]).k = "promise"
       /\ ResultOf(invoked[j]).settles.k = "conversion"
       /\ input.f[invoked[j].path[1]] # before.f[invoked[j].path[1]]
  /\ outcome.k = "raise"
  /\ outcome.err.k = "AggregateError"
  /\ FieldIndex(TopField(outcome.err.errors[1])) > FieldIndex(TopField(outcome.err.errors[2]))

\* The invocations of the pipeline of field whose result, as the pipeline
\* had it, was a conversion envelope.
ActedConversions(field) ==
  {j \in OfPipelines : invoked[j].path = <<field>> /\ Acted(invoked[j]).k = "conversion"}

\* The field failed at a checker of its own pipeline, not inside a nested validator.
FailedAtOwnChecker(field) ==
  \E j \in OfPipelines :
    /\ invoked[j].path = <<field>>
    /\ IF invoked[j].fn = "isUndefinedOrList"
         THEN invoked[j].x # Undef /\ ~IsCandidate(invoked[j].x)
         ELSE Acted(invoked[j]).k \in {"false", "other", "throw"}

\* C17: after validate or validateAsync has raised, a field whose pipeline
\* failed holds what it held, which is the value its Field Error reports,
\* even if a checker of the pipeline had converted it; a field whose pipeline
\* succeeded with a conversion holds the converted value; a field that is
\* not declared holds what it held.
C17_PerFieldWriteBack ==
  (ValidateOrAsyncCalled /\ outcome.k = "raise") =>
    /\ \A i \in DOMAIN validations :
         IF validations[i].field \in RaisedFields
           THEN SameSlot(before.f[validations[i].field], input.f[validations[i].field])
           ELSE IF ActedConversions(validations[i].field) # {}
             THEN input.f[validations[i].field]
                    = Acted(invoked[Last(ActedConversions(validations[i].field))]).converted
             ELSE SameSlot(before.f[validations[i].field], input.f[validations[i].field])
    /\ \A err \in RaisedLeaves(outcome) :
         (Len(err.field) = 1 /\ FailedAtOwnChecker(err.field[1])) =>
           err.value = before.f[err.field[1]]
    /\ \A f \in DOMAIN before.f :
         (\A i \in DOMAIN validations : validations[i].field # f) =>
           input.f[f] = before.f[f]

====
